---- MODULE Spec2Model ----
(***************************************************************************)
(* CpuCalcNonbondedForceKernel (platforms/cpu/src/CpuKernels.cpp).         *)
(*                                                                         *)
(* The kernel is driven by a single host thread: initialize once, then any *)
(* interleaving of execute and copyParametersToContext, while the host     *)
(* moves particles and resizes the periodic box between calls.             *)
(*                                                                         *)
(* Numbers.  A double is modelled by an integer (a multiple of one fixed   *)
(* quantum); every value used is far below 2^53, so double arithmetic on   *)
(* it is exact.  A float keeps FloatSignificandBits bits, so the cast      *)
(* (float) rounds an integer of 2^24 or more to the nearest representable  *)
(* one (ties to even).                                                     *)
(***************************************************************************)
EXTENDS Integers, Sequences, FiniteSets, TLC

\* ------------------------------------------------------------------ bounds
MaxParticles == 2
MaxExceptions == 2
MaxExecutes == 2

\* ------------------------------------------------------- program constants
FloatSignificandBits == 24

\* --------------------------------------------------------------- variables
VARIABLES
    \* the host (ContextImpl / ReferencePlatform::PlatformData)
    posData,              \* vector<RealVec>: one double 3-vector per particle
    forceData,            \* vector<RealVec>: the host force accumulator
    boxSize,              \* RealVec: the periodic box edges
    \* the kernel's members
    numParticles,
    num14,
    exclusions,           \* vector<set<int>>, indexed 0..numParticles-1
    posq,                 \* vector<float>, indexed 0..4*numParticles-1
    nonbondedMethod,
    nonbondedCutoff,
    useSwitchingFunction,
    switchingDistance,
    ewaldAlpha,
    rfDielectric,
    dispersionCoefficient,
    neighborList,
    \* control
    state,                \* "Uninitialized" or "Ready"
    pc,                   \* position inside execute: "idle" or "search"
    thrown,               \* exception raised by the most recent call
    \* history
    force,                \* the NonbondedForce handed to initialize
    updateForce,          \* the NonbondedForce handed to the latest copyParametersToContext
    numExecutes,          \* execute calls begun
    numSearches           \* computeNeighborList invocations

hostVars == <<posData, forceData, boxSize>>
tableVars == <<numParticles, num14, exclusions>>
methodVars == <<nonbondedMethod, nonbondedCutoff, useSwitchingFunction,
                switchingDistance, ewaldAlpha, rfDielectric, dispersionCoefficient>>
vars == <<posData, forceData, boxSize, numParticles, num14, exclusions, posq,
          nonbondedMethod, nonbondedCutoff, useSwitchingFunction, switchingDistance,
          ewaldAlpha, rfDielectric, dispersionCoefficient, neighborList,
          state, pc, thrown, force, updateForce, numExecutes, numSearches>>

\* ------------------------------------------------------------ value domains
RECURSIVE Pow2(_)
Pow2(n) == IF n = 0 THEN 1 ELSE 2 * Pow2(n - 1)

\* 2^24 + 1: a double that no float represents
BigDouble == Pow2(FloatSignificandBits) + 1

NoCutoff == "NoCutoff"
CutoffNonPeriodic == "CutoffNonPeriodic"
CutoffPeriodic == "CutoffPeriodic"
Ewald == "Ewald"
PME == "PME"
NonbondedMethod == {NoCutoff, CutoffNonPeriodic, CutoffPeriodic, Ewald, PME}

\* A member that no constructor or call has assigned yet.
Indeterminate == <<"indeterminate">>
NoForce == [none |-> TRUE]

ChargeValues == {-1, 0, BigDouble}
ChargeProdValues == {0, 1}
EpsilonValues == {0, 1}
CutoffValues == {1, 2}
SwitchingValues == {1, 2}
DielectricValues == {78}
TailValues == {-2, 3}
PosVecs == {<<0, 0, 0>>, <<9, -7, BigDouble>>}
BoxVecs == {<<8, 8, 8>>, <<8, 3, 8>>}

\* spacing of the floats around the magnitude a
RECURSIVE Ulp(_)
Ulp(a) == IF a < Pow2(FloatSignificandBits) THEN 1 ELSE 2 * Ulp(a \div 2)

RoundNearestEven(a) ==
    LET u == Ulp(a)
        q == a \div u
        r == a % u
    IN  IF 2 * r < u THEN q * u
        ELSE IF 2 * r > u THEN (q + 1) * u
        ELSE IF q % 2 = 0 THEN q * u ELSE (q + 1) * u

ToFloat(x) == IF x < 0 THEN -RoundNearestEven(-x) ELSE RoundNearestEven(x)

\* ------------------------------------------------ the NonbondedForce object
\* Only what the kernel reads and keeps is modelled: per particle the charge
\* (radius and depth are read and dropped), per exception the two particles,
\* chargeProd and epsilon (sigma is read and dropped).  dispersionTail stands
\* for the analytic Lennard-Jones tail integral of the particle parameters.
Exception(p1, p2, cp, eps) ==
    [particle1 |-> p1, particle2 |-> p2, chargeProd |-> cp, epsilon |-> eps]

ForceConfig(ch, ex, m, c, us, sd, ud, t) ==
    [charges |-> ch, exceptions |-> ex, nonbondedMethod |-> m, cutoffDistance |-> c,
     useSwitchingFunction |-> us, switchingDistance |-> sd,
     reactionFieldDielectric |-> CHOOSE d \in DielectricValues : TRUE,
     useDispersionCorrection |-> ud, dispersionTail |-> t]

getNumParticles(f) == Len(f.charges)
getNumExceptions(f) == Len(f.exceptions)
\* particle and exception indices are 0-based, as in the source
getParticleCharge(f, i) == f.charges[i + 1]
getExceptionParameters(f, i) == f.exceptions[i + 1]

\* Exceptions name particles of the force (the indexing at lines 75-76 is
\* only defined for those); particle1 = particle2 is not excluded.  Every
\* pair occurs with chargeProd = 0, one pair with every chargeProd.
ExceptionRecords(n) ==
    { Exception(p1, p2, 0, eps) :
        p1 \in 0..(n - 1), p2 \in 0..(n - 1), eps \in EpsilonValues }
    \cup { Exception(0, n - 1, cp, eps) : cp \in ChargeProdValues, eps \in EpsilonValues }

DefaultCharges(n) == [i \in 1..n |-> IF i % 2 = 1 THEN -1 ELSE BigDouble]
DefaultExceptions(n) == IF n >= 2 THEN <<Exception(0, 1, 1, 0)>> ELSE <<>>

\* forces that vary the exceptions
TopologyForce(f) ==
    \E n \in 1..MaxParticles : \E k \in 0..MaxExceptions :
        \E ex \in [1..k -> ExceptionRecords(n)] :
            f = ForceConfig(DefaultCharges(n), ex, CutoffPeriodic, 2, TRUE, 1, TRUE, -2)

\* forces that vary the charges
ChargeForce(f) ==
    \E n \in 1..MaxParticles : \E ch \in [1..n -> ChargeValues] :
        f = ForceConfig(ch, DefaultExceptions(n), CutoffPeriodic, 2, TRUE, 1, TRUE, -2)

\* forces that vary the method, the cutoff, the switching function and the
\* dispersion correction
MethodForce(f) ==
    \E m \in NonbondedMethod, c \in CutoffValues, us \in BOOLEAN,
       sd \in SwitchingValues, ud \in BOOLEAN, t \in TailValues :
        f = ForceConfig(DefaultCharges(MaxParticles), DefaultExceptions(MaxParticles),
                        m, c, us, sd, ud, t)

\* forces for runs in which the host moves particles and resizes the box
DynamicsForce(f) ==
    \E n \in 1..MaxParticles : \E m \in NonbondedMethod :
        \E ex \in {<<>>, DefaultExceptions(n)} :
            f = ForceConfig(DefaultCharges(n), ex, m, 2, FALSE, 1, TRUE, -2)

\* what the host may hand to copyParametersToContext after initialize(f)
NextCharge(c) == IF c = -1 THEN 0 ELSE IF c = 0 THEN BigDouble ELSE -1
UpdateConfigs(f) ==
    { f,
      [f EXCEPT !.charges = [i \in 1..Len(@) |-> NextCharge(@[i])]],
      [f EXCEPT !.charges = Append(@, 0)],
      [f EXCEPT !.exceptions = Append(@, Exception(0, 0, 1, 0))] }
    \cup (IF f.exceptions = <<>> THEN {} ELSE {[f EXCEPT !.exceptions = Tail(@)]})

\* ------------------------------------------------ NonbondedForceImpl helpers
IsPeriodicMethod(m) == m \in {CutoffPeriodic, Ewald, PME}

\* NonbondedForceImpl::calcDispersionCorrection: zero for a method without
\* periodicity, the analytic tail value otherwise.
calcDispersionCorrection(f) ==
    IF IsPeriodicMethod(f.nonbondedMethod) THEN f.dispersionTail ELSE 0

\* NonbondedForceImpl::calcEwaldParameters / calcPMEParameters: alpha is a
\* function of the cutoff (the tolerance is fixed); kept symbolic.
calcEwaldAlpha(f) == <<"alpha", f.cutoffDistance>>

\* ------------------------------------------------------------ initialize
\* lines 75-76: both insertions of one exception
InsertException(excl, e) ==
    LET first == [excl EXCEPT ![e.particle1] = @ \cup {e.particle2}]
    IN  [first EXCEPT ![e.particle2] = @ \cup {e.particle1}]

\* Is14 with the two tests joined by "and"
Is14BothNonzero(e) == e.chargeProd # 0 /\ e.epsilon # 0

\* line 77: the exception is a 1-4 interaction
Is14(e) == e.chargeProd # 0 \/ e.epsilon # 0

\* lines 69-79: exclusions after the first k exceptions
RECURSIVE BuildExclusions(_, _)
BuildExclusions(f, k) ==
    IF k = 0 THEN [a \in 0..(getNumParticles(f) - 1) |-> {}]
    ELSE InsertException(BuildExclusions(f, k - 1), getExceptionParameters(f, k - 1))

\* lines 70-79: nb14s after the first k exceptions
RECURSIVE Nb14s(_, _)
Nb14s(f, k) ==
    IF k = 0 THEN <<>>
    ELSE IF Is14(getExceptionParameters(f, k - 1))
         THEN Append(Nb14s(f, k - 1), k - 1)
         ELSE Nb14s(f, k - 1)

\* lines 87-95: posq.resize(4*numParticles, 0), then the charge slots
InitPosq(f) ==
    [k \in 0..(4 * getNumParticles(f) - 1) |->
        IF k % 4 = 3 THEN ToFloat(getParticleCharge(f, k \div 4)) ELSE 0]

\* InitDispersionCoefficient without the test of the flag
InitDispersionCoefficientAlways(f) == calcDispersionCorrection(f)

\* lines 126-129
InitDispersionCoefficient(f) ==
    IF f.useDispersionCorrection THEN calcDispersionCorrection(f) ELSE 0

Initialize ==
    /\ state = "Uninitialized"
    /\ numParticles' = getNumParticles(force)
    /\ exclusions' = BuildExclusions(force, getNumExceptions(force))
    /\ num14' = Len(Nb14s(force, getNumExceptions(force)))
    /\ posq' = InitPosq(force)
    /\ nonbondedMethod' = force.nonbondedMethod
    /\ nonbondedCutoff' = force.cutoffDistance
    /\ IF force.nonbondedMethod = NoCutoff
       THEN /\ useSwitchingFunction' = FALSE
            /\ UNCHANGED switchingDistance
       ELSE /\ useSwitchingFunction' = force.useSwitchingFunction
            /\ switchingDistance' = force.switchingDistance
    /\ IF force.nonbondedMethod \in {Ewald, PME}
       THEN ewaldAlpha' = calcEwaldAlpha(force)
       ELSE UNCHANGED ewaldAlpha
    /\ rfDielectric' = force.reactionFieldDielectric
    /\ dispersionCoefficient' = InitDispersionCoefficient(force)
    /\ state' = "Ready"
    /\ thrown' = "none"
    /\ UNCHANGED <<hostVars, neighborList, pc, force, updateForce, numExecutes, numSearches>>

\* --------------------------------------------------------------- execute
\* line 149-150: x - floor(x/L + 0.5)*L, exact on the modelled doubles
Wrap(x, L) == x - ((2 * x + L) \div (2 * L)) * L

\* lines 145-157: the value stored for coordinate j of one particle
WorkingCoordinate(x, L, periodic) ==
    IF periodic THEN ToFloat(Wrap(x, L)) ELSE ToFloat(x)

\* ConvertPositions with loops that stop one particle early
ConvertPositionsSkipLast(q, pos, box, n, periodic) ==
    [k \in 0..(4 * n - 1) |->
        IF k % 4 = 3 \/ k \div 4 = n - 1 THEN q[k]
        ELSE WorkingCoordinate(pos[(k \div 4) + 1][(k % 4) + 1], box[(k % 4) + 1], periodic)]

\* ConvertPositions with the z coordinate stored one slot too far
ConvertPositionsShiftedZ(q, pos, box, n, periodic) ==
    [k \in 0..(4 * n - 1) |->
        IF k % 4 = 2 THEN q[k]
        ELSE IF k % 4 = 3
             THEN WorkingCoordinate(pos[(k \div 4) + 1][3], box[3], periodic)
             ELSE WorkingCoordinate(pos[(k \div 4) + 1][(k % 4) + 1], box[(k % 4) + 1],
                                    periodic)]

\* lines 145-157: both loops; slot 4*i+3 is not assigned
ConvertPositions(q, pos, box, n, periodic) ==
    [k \in 0..(4 * n - 1) |->
        IF k % 4 = 3 THEN q[k]
        ELSE WorkingCoordinate(pos[(k \div 4) + 1][(k % 4) + 1], box[(k % 4) + 1], periodic)]

\* line 136
FloatBoxSize(box) == [j \in 1..3 |-> ToFloat(box[j])]

\* CpuNeighborList::computeNeighborList: the pairs i < j that are not
\* excluded and lie within the cutoff, by minimum image when periodic.
Delta(q, i, j, k, box, usePeriodic) ==
    LET d == q[4 * j + k] - q[4 * i + k]
    IN  IF usePeriodic THEN Wrap(d, box[k + 1]) ELSE d

Abs(x) == IF x < 0 THEN -x ELSE x

WithinCutoff(q, i, j, box, usePeriodic, cutoff) ==
    /\ \A k \in 0..2 : Abs(Delta(q, i, j, k, box, usePeriodic)) <= cutoff
    /\ Delta(q, i, j, 0, box, usePeriodic) * Delta(q, i, j, 0, box, usePeriodic)
         + Delta(q, i, j, 1, box, usePeriodic) * Delta(q, i, j, 1, box, usePeriodic)
         + Delta(q, i, j, 2, box, usePeriodic) * Delta(q, i, j, 2, box, usePeriodic)
         <= cutoff * cutoff

computeNeighborList(n, q, excl, box, usePeriodic, cutoff) ==
    { pair \in (0..(n - 1)) \X (0..(n - 1)) :
        /\ pair[1] < pair[2]
        /\ pair[2] \notin excl[pair[1]]
        /\ WithinCutoff(q, pair[1], pair[2], box, usePeriodic, cutoff) }

\* lines 133-157: the positions are converted to single precision
ExecuteConvert ==
    /\ state = "Ready"
    /\ pc = "idle"
    /\ numExecutes < MaxExecutes
    /\ posq' = ConvertPositions(posq, posData, boxSize, numParticles,
                                nonbondedMethod = CutoffPeriodic)
    /\ pc' = "search"
    /\ numExecutes' = numExecutes + 1
    /\ thrown' = "none"
    /\ UNCHANGED <<hostVars, tableVars, methodVars, neighborList, state, force,
                   updateForce, numSearches>>

\* lines 158-187: the neighbor list is rebuilt and execute returns 0.0
ExecuteSearch ==
    /\ pc = "search"
    /\ neighborList' = computeNeighborList(numParticles, posq, exclusions,
                                           FloatBoxSize(boxSize),
                                           IsPeriodicMethod(nonbondedMethod),
                                           nonbondedCutoff)
    /\ numSearches' = numSearches + 1
    /\ pc' = "idle"
    /\ thrown' = "none"
    /\ UNCHANGED <<hostVars, tableVars, methodVars, posq, state, force, updateForce,
                   numExecutes>>

\* ------------------------------------------------ copyParametersToContext
\* lines 190-229: the body is empty; the call returns normally
CopyParametersToContext(f) ==
    /\ state = "Ready"
    /\ pc = "idle"
    /\ updateForce' = f
    /\ thrown' = "none"
    /\ UNCHANGED <<hostVars, tableVars, methodVars, posq, neighborList, state, pc,
                   force, numExecutes, numSearches>>

\* --------------------------------------------------------------- the host
\* Between calls the integrator moves the particles ...
SetPositions(p) ==
    /\ pc = "idle"
    /\ p # posData
    /\ posData' = p
    /\ UNCHANGED <<forceData, boxSize, tableVars, methodVars, posq, neighborList,
                   state, pc, thrown, force, updateForce, numExecutes, numSearches>>

\* ... and a barostat resizes the box.
SetPeriodicBoxSize(b) ==
    /\ pc = "idle"
    /\ b # boxSize
    /\ boxSize' = b
    /\ UNCHANGED <<posData, forceData, tableVars, methodVars, posq, neighborList,
                   state, pc, thrown, force, updateForce, numExecutes, numSearches>>

\* ---------------------------------------------------------- specifications
\* the kernel as constructed: empty vectors, scalar members unassigned
Constructed ==
    /\ numParticles = Indeterminate
    /\ num14 = Indeterminate
    /\ exclusions = <<>>
    /\ posq = <<>>
    /\ nonbondedMethod = Indeterminate
    /\ nonbondedCutoff = Indeterminate
    /\ useSwitchingFunction = Indeterminate
    /\ switchingDistance = Indeterminate
    /\ ewaldAlpha = Indeterminate
    /\ rfDielectric = Indeterminate
    /\ dispersionCoefficient = Indeterminate
    /\ neighborList = {}
    /\ state = "Uninitialized"
    /\ pc = "idle"
    /\ thrown = "none"
    /\ updateForce = NoForce
    /\ numExecutes = 0
    /\ numSearches = 0

DefaultPositions(n) == [i \in 1..n |-> IF i = 1 THEN <<0, 0, 0>> ELSE <<9, -7, BigDouble>>]
ZeroForces(n) == [i \in 1..n |-> <<0, 0, 0>>]

\* Configuration runs: every force configuration, a host at rest.
Init ==
    /\ (TopologyForce(force) \/ ChargeForce(force) \/ MethodForce(force))
    /\ posData = DefaultPositions(getNumParticles(force))
    /\ forceData = ZeroForces(getNumParticles(force))
    /\ boxSize = <<8, 8, 8>>
    /\ Constructed

Next ==
    \/ Initialize
    \/ ExecuteConvert
    \/ ExecuteSearch
    \/ \E f \in UpdateConfigs(force) : CopyParametersToContext(f)

Spec == Init /\ [][Next]_vars

\* Dynamics runs: few force configurations, a host that moves particles and
\* resizes the box between the calls.
InitDynamics ==
    /\ DynamicsForce(force)
    /\ posData \in [1..getNumParticles(force) -> PosVecs]
    /\ forceData = ZeroForces(getNumParticles(force))
    /\ boxSize \in BoxVecs
    /\ Constructed

NextDynamics ==
    \/ Initialize
    \/ ExecuteConvert
    \/ ExecuteSearch
    \/ \E f \in UpdateConfigs(force) : CopyParametersToContext(f)
    \/ \E p \in [1..getNumParticles(force) -> PosVecs] : SetPositions(p)
    \/ \E b \in BoxVecs : SetPeriodicBoxSize(b)

SpecDynamics == InitDynamics /\ [][NextDynamics]_vars

\* ================================================================ properties
Particles == 0..(numParticles - 1)
BoxTooSmall == \E j \in 1..3 : boxSize[j] < 2 * nonbondedCutoff
ChargeSlots(q) == [i \in 0..((Len(force.charges)) - 1) |-> q[4 * i + 3]]
IsCopyCall == updateForce' # updateForce
CountsDiffer(f) ==
    \/ getNumParticles(f) # numParticles
    \/ getNumExceptions(f) # getNumExceptions(force)

\* C1: once initialized, and after any executes and parameter copies, the
\* exclusion table is symmetric and no particle excludes itself, whatever
\* the exceptions are (an exception of a particle with itself included).
C1_ExclusionsSymmetricNoSelf ==
    state = "Ready" =>
        \A a \in Particles : \A b \in Particles :
            /\ (b \in exclusions[a] <=> a \in exclusions[b])
            /\ a \notin exclusions[a]

\* C2: copyParametersToContext with a force whose particle count or
\* exception count differs from the initialized one raises TopologyChanged
\* and leaves the kernel's stored state as it was.
C2_CopyRejectsTopologyChange ==
    [][(IsCopyCall /\ CountsDiffer(updateForce')) =>
          /\ thrown' = "TopologyChanged"
          /\ UNCHANGED <<tableVars, posq, methodVars>>]_vars

\* C3: an execute that starts with a periodic method and a box edge below
\* twice the cutoff raises PeriodicBoxTooSmall without reaching the neighbor
\* search and without writing to the host force buffer.
C3_ExecuteRejectsSmallBox ==
    [][(numExecutes' = numExecutes + 1 /\ IsPeriodicMethod(nonbondedMethod)
            /\ BoxTooSmall) =>
          /\ thrown' = "PeriodicBoxTooSmall"
          /\ pc' = "idle"
          /\ UNCHANGED <<neighborList, numSearches, forceData>>]_vars

\* C4: after a copyParametersToContext that returns normally for a force
\* with the initialized counts, the charge slot of every particle holds that
\* force's charge (in single precision) and the exclusion table is as before.
C4_CopyUpdatesCharges ==
    [][(IsCopyCall /\ ~CountsDiffer(updateForce') /\ thrown' = "none") =>
          /\ \A i \in Particles :
                posq'[4 * i + 3] = ToFloat(getParticleCharge(updateForce', i))
          /\ exclusions' = exclusions]_vars

\* C5: when the neighbor search is about to run, every working coordinate is
\* the wrapped host coordinate, inside [-L/2, L/2), if the method is
\* CutoffPeriodic, Ewald or PME, and the unwrapped host coordinate otherwise
\* (both in single precision).
C5_PeriodicPositionsWrapped ==
    pc = "search" =>
        \A i \in Particles : \A j \in 0..2 :
            LET x == posData[i + 1][j + 1]
                L == boxSize[j + 1]
                w == posq[4 * i + j]
            IN  IF IsPeriodicMethod(nonbondedMethod)
                THEN w = ToFloat(x - ((2 * x + L) \div (2 * L)) * L)
                     /\ -L <= 2 * w /\ 2 * w < L
                ELSE w = ToFloat(x)

C7_ExceptionPartition ==
    state = "Ready" =>
        /\ num14 = Cardinality({ k \in 1..Len(force.exceptions) :
                                   ~(force.exceptions[k].chargeProd = 0
                                     /\ force.exceptions[k].epsilon = 0) })
        /\ \A k \in 1..Len(force.exceptions) :
              /\ force.exceptions[k].particle2 \in exclusions[force.exceptions[k].particle1]
              /\ force.exceptions[k].particle1 \in exclusions[force.exceptions[k].particle2]

C7_Witness ==
    /\ state = "Ready"
    /\ Len(force.exceptions) = 2
    /\ num14 = 1
    /\ \E k \in 1..2 : force.exceptions[k].chargeProd = 0 /\ force.exceptions[k].epsilon = 0
    /\ \E k \in 1..2 : force.exceptions[k].chargeProd = 0 /\ force.exceptions[k].epsilon # 0

\* C8: after initialize with NoCutoff the switching function is off; with
\* any other method the flag is the configuration's, and when it is on the
\* stored switching distance is strictly less than the stored cutoff.
C8_SwitchingFunction ==
    state = "Ready" =>
        IF nonbondedMethod = NoCutoff
        THEN useSwitchingFunction = FALSE
        ELSE /\ useSwitchingFunction = force.useSwitchingFunction
             /\ (useSwitchingFunction => switchingDistance < nonbondedCutoff)

\* C9: every execute rebuilds the neighbor list exactly once, from working
\* positions that all come from the host positions and box of that call;
\* nothing else changes the list.
C9_NeighborListRebuilt ==
    [][/\ (pc = "search" /\ pc' = "idle") =>
             /\ \A i \in Particles : \A j \in 0..2 :
                   posq[4 * i + j] =
                       IF nonbondedMethod = CutoffPeriodic
                       THEN ToFloat(Wrap(posData[i + 1][j + 1], boxSize[j + 1]))
                       ELSE ToFloat(posData[i + 1][j + 1])
             /\ neighborList' = computeNeighborList(numParticles, posq, exclusions,
                                                    FloatBoxSize(boxSize),
                                                    IsPeriodicMethod(nonbondedMethod),
                                                    nonbondedCutoff)
             /\ numSearches' = numSearches + 1
       /\ (neighborList' # neighborList \/ numSearches' # numSearches) =>
             (pc = "search" /\ pc' = "idle")
       /\ pc' = "idle" => numSearches' = numExecutes']_vars

\* a second execute is about to search, and the list left by the first one
\* is not the list of the present positions
C9_Witness ==
    /\ pc = "search"
    /\ numSearches >= 1
    /\ neighborList # computeNeighborList(numParticles, posq, exclusions,
                                          FloatBoxSize(boxSize),
                                          IsPeriodicMethod(nonbondedMethod),
                                          nonbondedCutoff)

\* C10: execute writes only the coordinate slots of posq and the neighbor
\* list: the charge slots keep the charge stored by initialize, and
\* numParticles, num14, the exclusion table, the method state and the host
\* positions are as before.
C10_ExecuteFrame ==
    [][/\ pc' # pc =>
             /\ DOMAIN posq' = DOMAIN posq
             /\ ChargeSlots(posq') = ChargeSlots(posq)
             /\ UNCHANGED <<tableVars, methodVars, posData>>
       /\ state' = "Ready" =>
             \A i \in 0..(Len(force'.charges) - 1) :
                 posq'[4 * i + 3] = ToFloat(force'.charges[i + 1])]_vars

\* an execute has completed: coordinates were written, and a charge slot
\* still holds the single-precision charge
C10_Witness ==
    /\ state = "Ready"
    /\ pc = "idle"
    /\ numSearches >= 1
    /\ numParticles >= 2
    /\ posq[2] # 0
    /\ posq[7] = Pow2(FloatSignificandBits)
    /\ force.charges[2] = BigDouble

====
